---- MODULE Spec2Model ----
(***************************************************************************)
(* Model of video2dataset/dataloader/transform.py:                         *)
(*   VideoResizer      (resize + consistent crop of all frames of a clip)  *)
(*   video_transform   (temporal subsampling, zero padding, frame pipeline)*)
(*   CutsAdder         (bundles the cuts annotation with the video)        *)
(*                                                                         *)
(* Python values are represented as follows.                               *)
(*   None                      the empty tuple <<>>                        *)
(*   an int size S             the 1-tuple <<S>>                           *)
(*   a pair [h, w]             the 2-tuple <<h, w>>                        *)
(*   a dict                    a function from its keys (strings)          *)
(*   a frame (ndarray h x w x 3 of one colour)  [h, w, px, dtype]          *)
(*   a list / array / tensor of frames   [kind, dtype, frames]             *)
(* A frame's px is its pixel value; after the rescale px/127.5 - 1 the     *)
(* field holds the numerator of that value over 255, i.e. 2*px - 255.      *)
(***************************************************************************)
EXTENDS Integers, Sequences, FiniteSets, TLC

VARIABLES
    \* ---- VideoResizer ----
    self,        \* the VideoResizer instance after __init__
    data,        \* the sample passed to __call__ (mutated in place)
    data0,       \* the sample as it was when __call__ was entered
    pc,          \* position of __call__: "start", "loop", "done", "error"
    err,         \* the exception raised by __call__ ([type, msg]) or NoError
    resize_size, \* local resize_size of __call__
    hw,          \* local (h, w) of __call__
    reference,   \* local reference [y, x] of __call__
    result,      \* local result list of __call__
    i,           \* loop index of the frame loop (1-based)
    applied,     \* per frame: the size given to cv2.resize and the slice origin
    draws,       \* number of prng.randint draws made so far
    meta_read,   \* TRUE once original_height / original_width have been read
    \* ---- video_transform ----
    vt,          \* closure variables of apply_frame_transform
    clip,        \* first element of the 3-tuple passed to apply_frame_transform
    video,       \* local video of apply_frame_transform
    handed,      \* the frames given to frame_transform, in call order
    tpc,         \* position of apply_frame_transform: "start", "padded",
                 \* "done", "error"
    tout,        \* value returned by apply_frame_transform
    terr,        \* the exception raised by apply_frame_transform or NoError
    \* ---- CutsAdder ----
    cuts,        \* the CutsAdder instance after __init__
    sample,      \* the sample passed to CutsAdder.__call__
    sample0,     \* the sample as it was when CutsAdder.__call__ was entered
    cpc,         \* position of CutsAdder.__call__: "start", "done", "error"
    cerr         \* the exception raised by CutsAdder.__call__ or NoError

rvars == <<self, data, data0, pc, err, resize_size, hw, reference, result, i,
           applied, draws, meta_read>>
tvars == <<vt, clip, video, handed, tpc, tout, terr>>
cvars == <<cuts, sample, sample0, cpc, cerr>>
vars  == <<rvars, tvars, cvars>>

\* ------------------------------------------------------------------ bounds
\* resize sizes (scalar, and each side of a pair) in Spec
MaxSize == 4
\* crop sides in Spec
MaxCrop == 2
\* decoded frame sides in Spec
MaxDim == 2
\* original_height / original_width in Spec
MaxOrig == 2
\* frames per clip in Spec
MaxT == 2
\* frame sides in SpecGeom
MaxGeomDim == 8
\* crop sides in SpecGeom
MaxGeomCrop == 7
\* scalar resize sizes in SpecResize
MaxScalar == 6
\* original sides in SpecResize
MaxOrigR == 8
\* frames of the input clip in SpecTransform
MaxClip == 4
\* n_frames in SpecTransform
MaxNFrames == 3
\* take_every_nth in SpecTransform
MaxStride == 3
\* pixel values of the input clip in SpecTransform
MaxPx == 2
\* field values of the sample in SpecCuts
MaxVal == 2

\* ------------------------------------------------------- Python primitives
None    == <<>>
NoError == [type |-> "none", msg |-> ""]

Min(a, b) == IF a <= b THEN a ELSE b
Max(a, b) == IF a >= b THEN a ELSE b

\* math.ceil(c / 2) for an int c >= 0
CeilHalf(c) == (c + 1) \div 2

\* Python 3 round(p / q) for ints p >= 0, q > 0: nearest, ties to even
RoundDiv(p, q) ==
    LET k == p \div q
        r == p % q
    IN  IF 2 * r < q THEN k
        ELSE IF 2 * r > q THEN k + 1
        ELSE IF k % 2 = 0 THEN k ELSE k + 1

\* int(round(c / 2))
RoundHalf(c) == RoundDiv(c, 2)

\* number of elements of a[start : stop] for a of length n (Python slicing:
\* a negative index counts from the end, indices are clamped to [0, n])
PySliceIndex(n, k) == IF k < 0 THEN Max(k + n, 0) ELSE Min(k, n)
PySliceLen(n, start, stop) ==
    Max(PySliceIndex(n, stop) - PySliceIndex(n, start), 0)

\* a decoded frame of one colour
Frame(h, w, px) == [h |-> h, w |-> w, px |-> px, dtype |-> "uint8"]

\* pixel value of the t-th decoded frame of the clips the model enumerates
FramePx(t) == (85 * t) % 256

\* np.stack / torch.stack of a sequence of frames
Stacked(frames, dtype) == [kind |-> "tensor", dtype |-> dtype, frames |-> frames]

\* --------------------------------------------------------- VideoResizer
\* __init__: an int crop size becomes a square pair; random_crop needs a crop
VideoResizerInit(size, crop_size, random_crop) ==
    LET cs == IF Len(crop_size) = 1 THEN <<crop_size[1], crop_size[1]>>
              ELSE crop_size
    IN  [key         |-> "mp4",
         height_key  |-> "original_height",
         width_key   |-> "original_width",
         resize_size |-> size,
         crop_size   |-> cs,
         random_crop |-> (random_crop /\ cs # None)]

\* the assert of get_rand_reference
CropWithinResize(rs, crop_size) ==
    IF rs = None THEN TRUE
    ELSE crop_size[1] <= rs[1] /\ crop_size[2] <= rs[2]

\* min_x / min_y computed with floor instead of ceil
MinCoord_floor(c) == c \div 2

\* min_x / min_y of get_rand_reference
MinCoord(c) == CeilHalf(c)

\* max_x / max_y of get_rand_reference, corner case included
MaxCoord(c, d) ==
    LET mx == d - MinCoord(c)
    IN  IF MinCoord(c) = mx THEN Min(mx + 1, d) ELSE mx

\* the values prng.randint(low, high, 1).item() can return ({} : ValueError)
RandInt(low, high) == low .. (high - 1)

\* the references [y, x] get_rand_reference can return; empty when one of
\* the two draws raises ValueError
get_rand_reference(crop_size, h, w) ==
    LET xs == RandInt(MinCoord(crop_size[2]), MaxCoord(crop_size[2], w))
        ys == RandInt(MinCoord(crop_size[1]), MaxCoord(crop_size[1], h))
    IN  IF xs = {} THEN {} ELSE {<<y, x>> : y \in ys, x \in xs}

\* number of randint calls get_rand_reference makes before it returns/raises
RandDraws(crop_size, w) ==
    IF RandInt(MinCoord(crop_size[2]), MaxCoord(crop_size[2], w)) = {} THEN 1 ELSE 2

\* floor(log2(n)) for n >= 1
RECURSIVE FloorLog2(_)
FloorLog2(n) == IF n < 2 THEN 0 ELSE 1 + FloorLog2(n \div 2)

\* 2^e for e >= 0
RECURSIVE Pow2(_)
Pow2(e) == IF e = 0 THEN 1 ELSE 2 * Pow2(e - 1)

\* 2^e mod m for e >= 0
RECURSIVE Pow2Mod(_, _)
Pow2Mod(e, m) == IF e = 0 THEN 1 % m ELSE (2 * Pow2Mod(e - 1, m)) % m

\* the least j >= 0 with S * 2^j >= m
RECURSIVE ShiftUp(_, _)
ShiftUp(S, m) == IF S >= m THEN 0 ELSE 1 + ShiftUp(2 * S, m)

\* binary exponent of the quotient S / m: the largest E with 2^E <= S / m
QuotientExponent(S, m) == IF S >= m THEN FloorLog2(S \div m) ELSE 0 - ShiftUp(S, m)

\* the rounding error of the double f = S / m, in units of 1 / (m * 2^(52 - E))
\* with E the exponent of f: f = (S * 2^(52 - E) + error) / (m * 2^(52 - E))
DivisionError(S, m) ==
    LET r == ((S % m) * Pow2Mod(52 - QuotientExponent(S, m), m)) % m
    IN  IF 2 * r < m THEN 0 - r ELSE m - r

\* int(round(orig * f)) for the double f = S / m (IEEE 754 binary64, round to
\* nearest even in the division and in the product, then Python's round).
\* Off a tie the double product rounds as the exact quotient orig * S / m
\* does. On a tie k + 0.5 the product is orig * error away from the tie: it
\* is the tie itself (round picks the even neighbour) when that distance is
\* at most half the spacing of the doubles at k + 0.5, and else lies on the
\* side of the error.
DoubleScaled(orig, S, m) ==
    LET p   == orig * S
        k   == p \div m
        tie == (2 * p) % m = 0 /\ ((2 * p) \div m) % 2 = 1
        d   == DivisionError(S, m)
        ad  == IF d < 0 THEN 0 - d ELSE d
        gap == m * Pow2(FloorLog2(k) - QuotientExponent(S, m))
    IN  IF ~tie THEN RoundDiv(p, m)
        ELSE IF 2 * orig * ad <= gap THEN (IF k % 2 = 0 THEN k ELSE k + 1)
        ELSE IF d > 0 THEN k + 1 ELSE k

\* the scale factor taken from the longer original side
ScaledSide_max(orig, S, orig_h, orig_w) == DoubleScaled(orig, S, Max(orig_h, orig_w))

\* f = resize_size / min((orig_h, orig_w)); int(round(orig * f))
ScaledSide(orig, S, orig_h, orig_w) == DoubleScaled(orig, S, Min(orig_h, orig_w))

\* get_resize_size: <<resize_size, <<h, w>>>>
get_resize_size(rsize, frame, orig_h, orig_w) ==
    IF rsize # None
    THEN LET rs == IF Len(rsize) = 1
                   THEN <<ScaledSide(orig_h, rsize[1], orig_h, orig_w),
                          ScaledSide(orig_w, rsize[1], orig_h, orig_w)>>
                   ELSE rsize
         IN  <<rs, rs>>
    ELSE <<None, <<frame.h, frame.w>>>>

\* the non-random branch of get_reference_frame
CenterReference(h, w) == <<h \div 2, w \div 2>>

\* x_ / y_ of the frame loop, as <<y_, x_>>
CropOrigin(ref, crop_size) ==
    <<ref[1] - RoundHalf(crop_size[1]), ref[2] - RoundHalf(crop_size[2])>>

\* cv2.resize(frame, (w, h)) of a frame of one colour
ResizeFrame(frame, rs) ==
    IF rs # None THEN [frame EXCEPT !.h = rs[1], !.w = rs[2]] ELSE frame

\* frame[y_ : y_ + crop_h, x_ : x_ + crop_w]
CropFrame(frame, ref, crop_size) ==
    IF crop_size # None
    THEN LET o == CropOrigin(ref, crop_size)
         IN  [frame EXCEPT
                !.h = PySliceLen(frame.h, o[1], o[1] + crop_size[1]),
                !.w = PySliceLen(frame.w, o[2], o[2] + crop_size[2])]
    ELSE frame

\* frame.astype(float) / 127.5 - 1.
Rescale(frame) == [frame EXCEPT !.px = 2 * frame.px - 255, !.dtype = "float64"]

Configured == ~(self.crop_size = None /\ self.resize_size = None)

\* the no-op path without the isinstance(list) test
RIdentity_always_stack ==
    /\ pc = "start"
    /\ ~Configured
    /\ IF self.key \notin DOMAIN data
       THEN /\ pc' = "error"
            /\ err' = [type |-> "KeyError", msg |-> self.key]
            /\ data' = data
       ELSE /\ pc' = "done"
            /\ err' = err
            /\ data' = [data EXCEPT ![self.key] =
                          Stacked(data[self.key].frames, data[self.key].dtype)]
    /\ UNCHANGED <<self, data0, resize_size, hw, reference, result, i,
                   applied, draws, meta_read>>

\* __call__, lines 110-114: nothing configured
RIdentity ==
    /\ pc = "start"
    /\ ~Configured
    /\ IF self.key \notin DOMAIN data
       THEN /\ pc' = "error"
            /\ err' = [type |-> "KeyError", msg |-> self.key]
            /\ data' = data
       ELSE /\ pc' = "done"
            /\ err' = err
            /\ data' = IF data[self.key].kind = "list"
                       THEN [data EXCEPT ![self.key] =
                               Stacked(data[self.key].frames, data[self.key].dtype)]
                       ELSE data
    /\ UNCHANGED <<self, data0, resize_size, hw, reference, result, i,
                   applied, draws, meta_read>>

\* f'Specified key {self.key} not in data'
KeyErrorMessage(key) == "Specified key " \o key \o " not in data"

\* the key test made after the metadata has been read
RKeyError_after_meta ==
    /\ pc = "start"
    /\ Configured
    /\ self.key \notin DOMAIN data
    /\ pc' = "error"
    /\ err' = [type |-> "KeyError", msg |-> KeyErrorMessage(self.key)]
    /\ meta_read' = TRUE
    /\ UNCHANGED <<self, data, data0, resize_size, hw, reference, result, i,
                   applied, draws>>

\* __call__, lines 119-120: the video key is missing
RKeyError ==
    /\ pc = "start"
    /\ Configured
    /\ self.key \notin DOMAIN data
    /\ pc' = "error"
    /\ err' = [type |-> "KeyError", msg |-> KeyErrorMessage(self.key)]
    /\ UNCHANGED <<self, data, data0, resize_size, hw, reference, result, i,
                   applied, draws, meta_read>>

\* the locals of lines 123-131
SetupSize ==
    get_resize_size(self.resize_size, data[self.key].frames[1],
                    data[self.height_key][1], data[self.width_key][1])

\* __call__, lines 123-132, get_rand_reference fails its assert
RSetupAssert ==
    /\ pc = "start"
    /\ Configured
    /\ self.key \in DOMAIN data
    /\ self.random_crop
    /\ ~CropWithinResize(SetupSize[1], self.crop_size)
    /\ pc' = "error"
    /\ err' = [type |-> "AssertionError",
               msg  |-> "Resize size must be greater or equal than crop_size"]
    /\ resize_size' = SetupSize[1]
    /\ hw' = SetupSize[2]
    /\ meta_read' = TRUE
    /\ UNCHANGED <<self, data, data0, reference, result, i, applied, draws>>

\* __call__, lines 123-132, prng.randint raises ValueError
RSetupValueError ==
    /\ pc = "start"
    /\ Configured
    /\ self.key \in DOMAIN data
    /\ self.random_crop
    /\ CropWithinResize(SetupSize[1], self.crop_size)
    /\ get_rand_reference(self.crop_size, SetupSize[2][1], SetupSize[2][2]) = {}
    /\ pc' = "error"
    /\ err' = [type |-> "ValueError", msg |-> "low >= high"]
    /\ resize_size' = SetupSize[1]
    /\ hw' = SetupSize[2]
    /\ meta_read' = TRUE
    /\ draws' = draws + RandDraws(self.crop_size, SetupSize[2][2])
    /\ UNCHANGED <<self, data, data0, reference, result, i, applied>>

\* get_reference_frame: the references it can return
get_reference_frame(rs, h, w) ==
    IF self.random_crop
    THEN get_rand_reference(self.crop_size, h, w)
    ELSE {CenterReference(h, w)}

\* __call__, lines 116-132: resize size and reference are computed
RSetup ==
    /\ pc = "start"
    /\ Configured
    /\ self.key \in DOMAIN data
    /\ IF self.random_crop THEN CropWithinResize(SetupSize[1], self.crop_size)
       ELSE TRUE
    /\ \E ref \in get_reference_frame(SetupSize[1], SetupSize[2][1], SetupSize[2][2]) :
          reference' = ref
    /\ resize_size' = SetupSize[1]
    /\ hw' = SetupSize[2]
    /\ meta_read' = TRUE
    /\ draws' = IF self.random_crop THEN draws + 2 ELSE draws
    /\ result' = <<>>
    /\ i' = 1
    /\ pc' = "loop"
    /\ UNCHANGED <<self, data, data0, err, applied>>

\* the frame loop with the reference computed anew for every frame
RFrame_redraw ==
    /\ pc = "loop"
    /\ i <= Len(data[self.key].frames)
    /\ \E ref \in get_reference_frame(resize_size, hw[1], hw[2]) :
          /\ reference' = ref
          /\ result' = Append(result,
                 Rescale(CropFrame(ResizeFrame(data[self.key].frames[i], resize_size),
                                   ref, self.crop_size)))
          /\ applied' = Append(applied,
                 [size   |-> resize_size,
                  origin |-> IF self.crop_size # None
                             THEN CropOrigin(ref, self.crop_size)
                             ELSE None])
    /\ draws' = IF self.random_crop THEN draws + 2 ELSE draws
    /\ i' = i + 1
    /\ UNCHANGED <<self, data, data0, pc, err, resize_size, hw, meta_read>>

\* __call__, lines 134-149: one iteration of the frame loop
RFrame ==
    /\ pc = "loop"
    /\ i <= Len(data[self.key].frames)
    /\ LET frame == data[self.key].frames[i]
           out   == Rescale(CropFrame(ResizeFrame(frame, resize_size),
                                      reference, self.crop_size))
       IN  /\ result' = Append(result, out)
           /\ applied' = Append(applied,
                  [size   |-> resize_size,
                   origin |-> IF self.crop_size # None
                              THEN CropOrigin(reference, self.crop_size)
                              ELSE None])
    /\ i' = i + 1
    /\ UNCHANGED <<self, data, data0, pc, err, resize_size, hw, reference,
                   draws, meta_read>>

\* __call__, lines 151-152: the stacked frames replace the video field
RStack ==
    /\ pc = "loop"
    /\ i > Len(data[self.key].frames)
    /\ data' = [data EXCEPT ![self.key] = Stacked(result, "float16")]
    /\ pc' = "done"
    /\ UNCHANGED <<self, data0, err, resize_size, hw, reference, result, i,
                   applied, draws, meta_read>>

\* a sample: the video (a list or an array of T frames of one shape, or
\* absent), the metadata as length-1 containers, and one more field
Sample(hasKey, kind, T, fh, fw, oh, ow) ==
    LET meta ==  ("original_height" :> <<oh>>) @@ ("original_width" :> <<ow>>)
              @@ ("txt" :> <<7>>)
        vid  == [kind |-> kind, dtype |-> "uint8",
                 frames |-> [t \in 1 .. T |-> Frame(fh, fw, FramePx(t))]]
    IN  IF hasKey THEN ("mp4" :> vid) @@ meta ELSE meta

\* the state of a VideoResizer before __call__ starts
ResizerStart(inst, smp) ==
    /\ self = inst
    /\ data = smp
    /\ data0 = smp
    /\ pc = "start"
    /\ err = NoError
    /\ resize_size = None
    /\ hw = None
    /\ reference = None
    /\ result = <<>>
    /\ i = 0
    /\ applied = <<>>
    /\ draws = 0
    /\ meta_read = FALSE

Pairs(n) == {<<a, b>> : a \in 1 .. n, b \in 1 .. n}
Scalars(n) == {<<a>> : a \in 1 .. n}

ResizerIdle ==
    ResizerStart(VideoResizerInit(None, None, FALSE),
                 Sample(FALSE, "list", 1, 1, 1, 1, 1))

\* ------------------------------------------------------ video_transform
\* a frame of the clip given to apply_frame_transform (one colour)
TFrame(px) == [px |-> px, dtype |-> "uint8", layout |-> "HWC"]

\* video.permute(0, 3, 1, 2)
Permute(v) == [k \in 1 .. Len(v) |-> [v[k] EXCEPT !.layout = "CHW"]]

\* number of elements of v[::step]
StrideLen(n, step) == (n + step - 1) \div step

\* video[::take_every_nth]
Subsample(v, step) == [k \in 1 .. StrideLen(Len(v), step) |-> v[(k - 1) * step + 1]]

\* video[:n_frames]
Truncate(v, n) == [k \in 1 .. Min(Len(v), n) |-> v[k]]

\* one frame of torch.zeros(n_frames, *video.shape[1:])
ZeroFrame == [px |-> 0, dtype |-> "float32", layout |-> "CHW"]

\* frame.float(), and the cast of padded_video[: video.shape[0]] = video
Float(frame) == [frame EXCEPT !.dtype = "float32"]

\* lines 210-213: padded_video, when video is shorter than n_frames
Pad(v, n) ==
    IF Len(v) < n
    THEN [k \in 1 .. n |-> IF k <= Len(v) THEN Float(v[k]) ELSE ZeroFrame]
    ELSE v

\* scale=(0.9, 0.1) of the RandomResizedCrop of the training pipeline, in
\* tenths, in the order given
RandomResizedCropScale == <<9, 1>>

\* torch.empty(1).uniform_(scale[0], scale[1]), the first draw of
\* RandomResizedCrop, raises RuntimeError when scale[0] > scale[1]
UniformRaises(from, to) == from > to

\* the message of that RuntimeError for scale=(0.9, 0.1)
UniformMessage ==
    "uniform_ expects to return a [from, to) range, but found from=0.9 > to=0.1"

\* frame_transform raises: the training pipeline, whose RandomResizedCrop
\* draws the crop area from its scale range
PipelineRaises ==
    vt.is_train /\ UniformRaises(RandomResizedCropScale[1], RandomResizedCropScale[2])

\* frame_transform, the Compose built for is_train or for evaluation, when
\* it returns
frame_transform(frame) ==
    [input |-> frame, pipeline |-> IF vt.is_train THEN "train" ELSE "eval"]

\* apply_frame_transform, lines 200-213
TPrepare ==
    /\ tpc = "start"
    /\ video' = Pad(Truncate(Subsample(Permute(clip), vt.take_every_nth),
                             vt.n_frames), vt.n_frames)
    /\ tpc' = "padded"
    /\ UNCHANGED <<vt, clip, handed, tout, terr>>

\* apply_frame_transform, line 216: every frame goes through the pipeline
TApply ==
    /\ tpc = "padded"
    /\ ~PipelineRaises
    /\ handed' = [k \in 1 .. Len(video) |-> Float(video[k])]
    /\ tout' = [k \in 1 .. Len(video) |-> frame_transform(Float(video[k]))]
    /\ tpc' = "done"
    /\ UNCHANGED <<vt, clip, video, terr>>

\* apply_frame_transform, line 216: the pipeline raises on the first frame
\* (video has n_frames >= 1 frames here) and nothing is returned
TApplyRaises ==
    /\ tpc = "padded"
    /\ PipelineRaises
    /\ handed' = <<Float(video[1])>>
    /\ tpc' = "error"
    /\ terr' = [type |-> "RuntimeError", msg |-> UniformMessage]
    /\ UNCHANGED <<vt, clip, video, tout>>

\* clips of n frames with pixel values 0 .. MaxPx
Clips(n) == [1 .. n -> {TFrame(px) : px \in 0 .. MaxPx}]

TransformStart(n_frames, take_every_nth, is_train, c) ==
    /\ vt = [n_frames |-> n_frames, take_every_nth |-> take_every_nth,
             is_train |-> is_train]
    /\ clip = c
    /\ video = <<>>
    /\ handed = <<>>
    /\ tpc = "start"
    /\ tout = <<>>
    /\ terr = NoError

TransformIdle ==
    /\ vt = [n_frames |-> 1, take_every_nth |-> 1, is_train |-> FALSE]
    /\ clip = <<>>
    /\ video = <<>>
    /\ handed = <<>>
    /\ tpc = "idle"
    /\ tout = <<>>
    /\ terr = NoError

\* ------------------------------------------------------------ CutsAdder
\* a field value of a sample: a leaf value, or a nested dict of leaf values
Leaf(n) == [kind |-> "leaf", v |-> n, d |-> <<>>]
Nested(d) == [kind |-> "dict", v |-> 0, d |-> d]

\* __init__
CutsAdderInit(cuts_key, video_key) == [cuts_key |-> cuts_key, video_key |-> video_key]

\* del d[k]
DictDel(d, k) == [x \in (DOMAIN d) \ {k} |-> d[x]]

\* d[k] = v
DictSet(d, k, v) == [x \in (DOMAIN d) \cup {k} |-> IF x = k THEN v ELSE d[x]]

\* f'no field with key "{key}" in sample, but this is required.'
MissingFieldMessage(key) ==
    "no field with key \"" \o key \o "\" in sample, but this is required."

\* __call__, line 226: the cuts key is missing
CAssertCuts ==
    /\ cpc = "start"
    /\ cuts.cuts_key \notin DOMAIN sample
    /\ cpc' = "error"
    /\ cerr' = [type |-> "AssertionError", msg |-> MissingFieldMessage(cuts.cuts_key)]
    /\ UNCHANGED <<cuts, sample, sample0>>

\* __call__, line 227: the video key is missing
CAssertVideo ==
    /\ cpc = "start"
    /\ cuts.cuts_key \in DOMAIN sample
    /\ cuts.video_key \notin DOMAIN sample
    /\ cpc' = "error"
    /\ cerr' = [type |-> "AssertionError", msg |-> MissingFieldMessage(cuts.video_key)]
    /\ UNCHANGED <<cuts, sample, sample0>>

\* __call__, lines 228-230
CCall ==
    /\ cpc = "start"
    /\ cuts.cuts_key \in DOMAIN sample
    /\ cuts.video_key \in DOMAIN sample
    /\ LET nested == (cuts.video_key :> sample[cuts.video_key].v)
                     @@ (cuts.cuts_key :> sample[cuts.cuts_key].v)
           stored == DictSet(sample, cuts.video_key, Nested(nested))
       IN  sample' = DictDel(stored, cuts.video_key)
    /\ cpc' = "done"
    /\ UNCHANGED <<cuts, sample0, cerr>>

CutsKeys == {"mp4", "cuts", "txt", "json"}

\* the samples over CutsKeys with leaf values 1 .. MaxVal
CutsSamples ==
    UNION {[ks -> {Leaf(n) : n \in 1 .. MaxVal}] : ks \in SUBSET CutsKeys}

CutsStart(smp) ==
    /\ cuts = CutsAdderInit("cuts", "mp4")
    /\ sample = smp
    /\ sample0 = smp
    /\ cpc = "start"
    /\ cerr = NoError

CutsIdle ==
    /\ cuts = CutsAdderInit("cuts", "mp4")
    /\ sample = <<>>
    /\ sample0 = <<>>
    /\ cpc = "idle"
    /\ cerr = NoError

\* ------------------------------------------------------- specifications
\* Spec: whole VideoResizer calls on small clips
Init ==
    /\ \E size \in {None} \cup Scalars(MaxSize) \cup Pairs(MaxSize),
          crop \in {None} \cup Scalars(MaxCrop) \cup Pairs(MaxCrop),
          rnd \in BOOLEAN,
          hasKey \in BOOLEAN, kind \in {"list", "array"}, T \in 1 .. MaxT,
          fh \in 1 .. MaxDim, fw \in 1 .. MaxDim,
          oh \in 1 .. MaxOrig, ow \in 1 .. MaxOrig :
          /\ ~hasKey => (kind = "list" /\ T = 1 /\ fh = 1 /\ fw = 1)
          /\ ResizerStart(VideoResizerInit(size, crop, rnd),
                          Sample(hasKey, kind, T, fh, fw, oh, ow))
    /\ TransformIdle
    /\ CutsIdle

Next ==
    /\ \/ RIdentity
       \/ RKeyError
       \/ RSetupAssert
       \/ RSetupValueError
       \/ RSetup
       \/ RFrame
       \/ RStack
    /\ UNCHANGED <<tvars, cvars>>

Spec == Init /\ [][Next]_vars

\* SpecGeom: one-frame clips, crop always configured, larger frames and
\* crops; the frame size (h, w) comes from the decoded frame (no resize) or
\* from a pair resize size
InitGeom ==
    /\ \E crop \in Pairs(MaxGeomCrop), rnd \in BOOLEAN,
          h \in 1 .. MaxGeomDim, w \in 1 .. MaxGeomDim, resized \in BOOLEAN :
          ResizerStart(
              VideoResizerInit(IF resized THEN <<h, w>> ELSE None, crop, rnd),
              IF resized THEN Sample(TRUE, "list", 1, 1, 1, 1, 1)
                         ELSE Sample(TRUE, "list", 1, h, w, h, w))
    /\ TransformIdle
    /\ CutsIdle

NextGeom ==
    /\ \/ RSetupAssert
       \/ RSetupValueError
       \/ RSetup
       \/ RFrame
       \/ RStack
    /\ UNCHANGED <<tvars, cvars>>

SpecGeom == InitGeom /\ [][NextGeom]_vars

\* SpecResize: get_resize_size on scalar, pair and unset resize sizes, with
\* a fixed center crop
OrigSides == (1 .. MaxOrigR) \cup {14, 21, 100, 200}

InitResize ==
    /\ \E size \in {None} \cup Scalars(MaxScalar) \cup {<<17>>, <<50>>} \cup Pairs(2),
          fh \in 1 .. 2, fw \in 1 .. 2,
          oh \in OrigSides, ow \in OrigSides :
          ResizerStart(VideoResizerInit(size, <<1>>, FALSE),
                       Sample(TRUE, "list", 1, fh, fw, oh, ow))
    /\ TransformIdle
    /\ CutsIdle

NextResize ==
    /\ \/ RSetup
       \/ RFrame
       \/ RStack
    /\ UNCHANGED <<tvars, cvars>>

SpecResize == InitResize /\ [][NextResize]_vars

\* SpecTransform: apply_frame_transform on clips of 0 .. MaxClip frames
InitTransform ==
    /\ \E n \in 1 .. MaxNFrames, step \in 1 .. MaxStride, train \in BOOLEAN,
          T \in 0 .. MaxClip :
          \E c \in Clips(T) : TransformStart(n, step, train, c)
    /\ ResizerIdle
    /\ CutsIdle

NextTransform ==
    /\ \/ TPrepare
       \/ TApply
       \/ TApplyRaises
    /\ UNCHANGED <<rvars, cvars>>

SpecTransform == InitTransform /\ [][NextTransform]_vars

\* SpecCuts: CutsAdder calls
InitCuts ==
    /\ \E smp \in CutsSamples : CutsStart(smp)
    /\ ResizerIdle
    /\ TransformIdle

NextCuts ==
    /\ \/ CAssertCuts
       \/ CAssertVideo
       \/ CCall
    /\ UNCHANGED <<rvars, tvars>>

SpecCuts == InitCuts /\ [][NextCuts]_vars

\* ================================================================ claims
Frames0 == data0[self.key].frames
CropH == self.crop_size[1]
CropW == self.crop_size[2]

\* r is Python's round(p / q): a nearest integer, the even one on a tie
IsRound(r, p, q) ==
    LET dist == IF r * q >= p THEN r * q - p ELSE p - r * q
    IN  2 * dist <= q /\ (2 * dist = q => r % 2 = 0)

\* C1: in one call with resize and/or crop configured every frame processed so far was resized to the one
\* resize size computed before the loop and cropped at the one origin given
\* by the reference computed before the loop; frames are processed in their
\* original order and the loop never changes resize size or reference.
C1_SameTransformForAllFrames ==
    (pc \in {"loop", "done"} /\ ~(self.crop_size = None /\ self.resize_size = None)) =>
        /\ Len(applied) = i - 1
        /\ Len(result) = i - 1
        /\ pc = "done" => Len(result) = Len(Frames0)
        /\ \A k \in 1 .. Len(applied) :
              /\ applied[k].size = resize_size
              /\ applied[k] = applied[1]
              /\ IF self.crop_size = None THEN applied[k].origin = None
                 ELSE applied[k].origin =
                        <<reference[1] - RoundHalf(CropH), reference[2] - RoundHalf(CropW)>>
              /\ result[k].px = 2 * Frames0[k].px - 255

\* a finished call on a clip of several frames with a resize size and a
\* random crop whose sampling range offers more than one reference
C1_Witness ==
    /\ pc = "done"
    /\ self.random_crop
    /\ resize_size # None
    /\ Len(applied) >= 2
    /\ Cardinality(get_rand_reference(self.crop_size, hw[1], hw[2])) > 1

\* C5: with a resize size and a crop size configured and the crop larger
\* than the resize size on some axis, a call on a sample holding the video
\* fails with an AssertionError and leaves the sample as it was, random_crop
\* on or off.
C5_CropExceedsResizeAsserts ==
    (/\ pc # "start"
     /\ self.resize_size # None
     /\ self.crop_size # None
     /\ self.key \in DOMAIN data0
     /\ resize_size # None
     /\ (CropH > resize_size[1] \/ CropW > resize_size[2]))
    => (pc = "error" /\ err.type = "AssertionError" /\ data = data0)

\* C6: with neither resize nor crop configured a call on a sample holding
\* the video returns the sample with the frames of a list stacked in order
\* with their pixel values, shape and dtype, any other video value as it
\* was, the other fields unchanged and no random draw made.
C6_IdentityPath ==
    (pc # "start" /\ self.crop_size = None /\ self.resize_size = None
       /\ self.key \in DOMAIN data0)
    => /\ pc = "done"
       /\ err = NoError
       /\ draws = 0
       /\ DOMAIN data = DOMAIN data0
       /\ \A k \in (DOMAIN data0) \ {self.key} : data[k] = data0[k]
       /\ IF data0[self.key].kind = "list"
          THEN /\ data[self.key].kind = "tensor"
               /\ data[self.key].dtype = data0[self.key].dtype
               /\ data[self.key].frames = Frames0
          ELSE data[self.key] = data0[self.key]

\* a finished no-op call on a list of several frames
C6_Witness ==
    /\ pc = "done"
    /\ self.crop_size = None /\ self.resize_size = None
    /\ data0[self.key].kind = "list"
    /\ Len(Frames0) >= 2
    /\ data[self.key].kind = "tensor"

\* C8: with a resize or crop size configured, a call on a sample without the
\* video key raises KeyError naming that key, before the metadata is read or
\* a random draw is made, and leaves the sample unchanged.
C8_MissingKeyRaises ==
    (pc # "start" /\ ~(self.crop_size = None /\ self.resize_size = None)
       /\ self.key \notin DOMAIN data0)
    => /\ pc = "error"
       /\ err.type = "KeyError"
       /\ err.msg = "Specified key " \o self.key \o " not in data"
       /\ ~meta_read
       /\ draws = 0
       /\ data = data0

\* a failed call of a resizer with resize size and random crop
C8_Witness ==
    /\ pc = "error"
    /\ err.type = "KeyError"
    /\ self.random_crop
    /\ self.resize_size # None
    /\ self.key \notin DOMAIN data0

\* C2: with random cropping, once get_rand_reference has returned [y, x] the
\* window of the crop size at y0 = y - round(crop_h/2), x0 = x - round(crop_w/2)
\* lies inside the h x w frame, and every cropped frame has the crop size.
C2_RandomWindowInsideFrame ==
    (self.random_crop /\ pc \in {"loop", "done"}) =>
        LET y0 == reference[1] - RoundHalf(CropH)
            x0 == reference[2] - RoundHalf(CropW)
        IN  /\ 0 <= x0 /\ x0 + CropW <= hw[2]
            /\ 0 <= y0 /\ y0 + CropH <= hw[1]
            /\ \A k \in 1 .. Len(result) :
                  result[k].h = CropH /\ result[k].w = CropW

\* a finished random crop drawn from the bumped degenerate range on the x
\* axis, with a crop width whose half rounds down
C2_Witness ==
    /\ self.random_crop
    /\ pc = "done"
    /\ Len(result) = 1
    /\ CeilHalf(CropW) = hw[2] - CeilHalf(CropW)
    /\ CropW % 4 = 1
    /\ CropW > 1

\* C9: with center cropping and a crop that does not exceed the frame on
\* either axis, the window origin is not negative, the window ends inside
\* the frame and every output frame has crop_h x crop_w pixels.
C9_CenterWindowInsideFrame ==
    (/\ ~self.random_crop
     /\ self.crop_size # None
     /\ pc \in {"loop", "done"}
     /\ CropH <= hw[1] /\ CropW <= hw[2])
    => LET y0 == hw[1] \div 2 - RoundHalf(CropH)
           x0 == hw[2] \div 2 - RoundHalf(CropW)
       IN  /\ reference = <<hw[1] \div 2, hw[2] \div 2>>
           /\ 0 <= x0 /\ x0 + CropW <= hw[2]
           /\ 0 <= y0 /\ y0 + CropH <= hw[1]
           /\ \A k \in 1 .. Len(result) :
                 result[k].h = CropH /\ result[k].w = CropW

\* C10: with random cropping and a crop that does not exceed the frame on
\* either axis, get_rand_reference does not raise ValueError; it returns a
\* reference.
C10_NoValueErrorWhenCropFits ==
    (/\ self.random_crop
     /\ pc # "start"
     /\ CropH <= hw[1] /\ CropW <= hw[2])
    => (pc \in {"loop", "done"} /\ err = NoError /\ reference # None)

\* C7 (as stated): get_resize_size. A scalar S gives exactly
\* round(orig_h*S/min), round(orig_w*S/min) (ties to even), whose shorter
\* side is S ((100, 200) and S = 50 give (50, 100)); a pair is returned as it
\* is; an unset size gives None and the shape of the first frame as (h, w).
C7_ResizeSize ==
    pc \in {"loop", "done"} =>
        LET oh == data0[self.height_key][1]
            ow == data0[self.width_key][1]
            m  == IF oh <= ow THEN oh ELSE ow
            S  == self.resize_size[1]
        IN  IF self.resize_size = None
            THEN resize_size = None /\ hw = <<Frames0[1].h, Frames0[1].w>>
            ELSE IF Len(self.resize_size) = 2
            THEN resize_size = self.resize_size /\ hw = self.resize_size
            ELSE /\ Len(resize_size) = 2
                 /\ hw = resize_size
                 /\ IsRound(resize_size[1], oh * S, m)
                 /\ IsRound(resize_size[2], ow * S, m)
                 /\ (IF resize_size[1] <= resize_size[2]
                     THEN resize_size[1] ELSE resize_size[2]) = S
                 /\ (oh = 100 /\ ow = 200 /\ S = 50) => resize_size = <<50, 100>>

\* r is an integer nearest to p / q (either neighbour on a tie)
IsNearest(r, p, q) ==
    LET dist == IF r * q >= p THEN r * q - p ELSE p - r * q
    IN  2 * dist <= q

\* C7 (amended): get_resize_size. A scalar S gives on each side an integer
\* nearest to orig*S/min(orig_h, orig_w), either neighbour when the quotient
\* is exactly halfway, and the shorter side is exactly S ((100, 200) and
\* S = 50 give (50, 100)); a pair is returned as it is; an unset size gives
\* None and the shape of the first frame as (h, w).
C7_ResizeSizeNearest ==
    pc \in {"loop", "done"} =>
        LET oh == data0[self.height_key][1]
            ow == data0[self.width_key][1]
            m  == IF oh <= ow THEN oh ELSE ow
            S  == self.resize_size[1]
        IN  IF self.resize_size = None
            THEN resize_size = None /\ hw = <<Frames0[1].h, Frames0[1].w>>
            ELSE IF Len(self.resize_size) = 2
            THEN resize_size = self.resize_size /\ hw = self.resize_size
            ELSE /\ Len(resize_size) = 2
                 /\ hw = resize_size
                 /\ IsNearest(resize_size[1], oh * S, m)
                 /\ IsNearest(resize_size[2], ow * S, m)
                 /\ (IF resize_size[1] <= resize_size[2]
                     THEN resize_size[1] ELSE resize_size[2]) = S
                 /\ (oh = 100 /\ ow = 200 /\ S = 50) => resize_size = <<50, 100>>

\* a finished call with S = 17 on a 21 x 14 original, whose longer side
\* 21 * 17 / 14 = 25.5 is a tie that the double product falls below
C7_Witness ==
    /\ pc = "done"
    /\ self.resize_size = <<17>>
    /\ data0[self.height_key] = <<21>>
    /\ data0[self.width_key] = <<14>>
    /\ resize_size = <<25, 17>>

\* C4: a call of apply_frame_transform, for either pipeline, gives
\* frame_transform exactly n_frames frames: entry k (from 0) is input frame
\* k*take_every_nth for k < min(n_frames, ceil(T/take_every_nth)) and every
\* later entry is a zero frame; the pipeline is applied to each of these
\* n_frames entries, in order.
C4_SubsampleThenPad ==
    tpc \in {"done", "error"} =>
        LET T    == Len(clip)
            kept == IF (T + vt.take_every_nth - 1) \div vt.take_every_nth <= vt.n_frames
                    THEN (T + vt.take_every_nth - 1) \div vt.take_every_nth
                    ELSE vt.n_frames
        IN  /\ tpc = "done"
            /\ Len(handed) = vt.n_frames
            /\ Len(tout) = vt.n_frames
            /\ \A k \in 1 .. vt.n_frames :
                  /\ IF k <= kept
                     THEN /\ (k - 1) * vt.take_every_nth + 1 <= T
                          /\ handed[k].px = clip[(k - 1) * vt.take_every_nth + 1].px
                     ELSE handed[k].px = 0
                  /\ handed[k].dtype = "float32"
                  /\ tout[k].input = handed[k]

\* C3: CutsAdder on a sample with both keys: the video key maps to the
\* nested {video_key: video, cuts_key: cuts}, the cuts key is gone and the
\* other fields are unchanged.
C3_CutsNestedUnderVideo ==
    (cpc = "done") =>
        /\ cuts.video_key \in DOMAIN sample
        /\ cuts.cuts_key \notin DOMAIN sample
        /\ DOMAIN sample = (DOMAIN sample0) \ {cuts.cuts_key}
        /\ \A k \in (DOMAIN sample) \ {cuts.video_key} : sample[k] = sample0[k]
        /\ cuts.video_key \in DOMAIN sample =>
              /\ sample[cuts.video_key].kind = "dict"
              /\ DOMAIN sample[cuts.video_key].d = {cuts.video_key, cuts.cuts_key}
              /\ sample[cuts.video_key].d[cuts.video_key] = sample0[cuts.video_key].v
              /\ sample[cuts.video_key].d[cuts.cuts_key] = sample0[cuts.cuts_key].v
====
